---- MODULE Spec2Model ----
(***************************************************************************)
(* Model of src/index.js: the RapidAPI client.                             *)
(*   call(pack, block, args): one request, a per-call handler table        *)
(*   (__callbacks) filled through the registrar's on(), consulted by the   *)
(*   request callback.                                                     *)
(*   listen(pack, event, params, callbacks): token exchange, then a        *)
(*   websocket with its onmessage / onclose / onopen handlers.             *)
(***************************************************************************)
EXTENDS Naturals, Sequences, FiniteSets

(***************************************************************************)
(* Bounds of the model.                                                    *)
(***************************************************************************)
\* on() calls made on the registrar of a single call
MaxOn == 3

\* on() calls made over both registrars when two calls are interleaved
MaxOnTwo == 2

\* inbound frames delivered to one socket
MaxFrames == 3

(***************************************************************************)
(* JavaScript values: records tagged by t.  An object carries the fields   *)
(* it has as own properties; a text is a string, json being the value its  *)
(* characters denote (NotJSON when they denote none).                      *)
(***************************************************************************)
Undefined == [t |-> "undefined"]

Null == [t |-> "null"]

Number == [t |-> "number"]

NotJSON == [t |-> "notjson"]

Str(x) == [t |-> "string", s |-> x]

Text(v) == [t |-> "text", json |-> v]

TypeOf(v) ==
    CASE v.t = "undefined" -> "undefined"
      [] v.t \in {"string", "text"} -> "string"
      [] v.t = "number" -> "number"
      [] OTHER -> "object"

\* v.hasOwnProperty(f) / whether v has the field f, for a non-null v
HasField(v, f) == v.t = "object" /\ f \in DOMAIN v

JSONParseLenient(v) == [ok |-> TRUE, val |-> IF v.t = "text" THEN v.json ELSE v]

\* JSON.parse(v): undefined and text that is not JSON make it throw.
JSONParse(v) ==
    IF v.t = "text" /\ v.json # NotJSON
    THEN [ok |-> TRUE, val |-> v.json]
    ELSE [ok |-> FALSE, val |-> v]

\* Outcome names a caller registers and a server answers with.
Names == {"error", "success", "hasOwnProperty", "__proto__"}

Payloads == {Str("p1"), Str("p2")}

\* The functions a caller passes to on().
Handlers == {"h1", "h2"}

\* Arguments of on() that are not of the expected type.
NumberArg == "<number 5>"

NotAFunction == "<not a function>"

OnKeys == Names \cup {NumberArg}

OnValues == Handlers \cup {NotAFunction}

TypeOfArg(x) ==
    IF x \in Handlers THEN "function"
    ELSE IF x = NumberArg THEN "number"
    ELSE IF x = NotAFunction THEN "object"
    ELSE "string"

\* The property key a value used as obj[e] denotes.
PropertyKey(e) == IF e = NumberArg THEN "5" ELSE e

(***************************************************************************)
(* The handler table: the object literal {} of call().  own holds its own  *)
(* properties, proto its prototype (Object.prototype, or whatever an       *)
(* assignment to __proto__ installed).                                     *)
(***************************************************************************)
Absent == "<absent>"

ObjectPrototype == "<Object.prototype>"

OwnKeys == {"error", "success", "hasOwnProperty", "5"}

EmptyTable == [own |-> [k \in OwnKeys |-> Absent], proto |-> ObjectPrototype]

\* __callbacks[key] = value.  The key __proto__ reaches the accessor of
\* Object.prototype, which replaces the prototype when given an object or
\* a function and ignores the assignment otherwise.
Put(T, key, value) ==
    IF key = "__proto__"
    THEN IF TypeOfArg(value) \in {"function", "object"}
         THEN [T EXCEPT !.proto = value]
         ELSE T
    ELSE [T EXCEPT !.own[key] = value]

\* __callbacks[key]: the own property, else what the prototype chain gives
\* (nothing for the keys of the model other than __proto__).
Get(T, key) ==
    IF key = "__proto__" THEN T.proto
    ELSE IF T.own[key] # Absent THEN T.own[key]
    ELSE Absent

\* Object.prototype.hasOwnProperty applied to the table.
BuiltinHasOwn(T, key) == key \in OwnKeys /\ T.own[key] # Absent

(***************************************************************************)
(* on(e, cb) of the registrar.                                             *)
(***************************************************************************)
ValidOnEither(e, cb) == TypeOfArg(cb) = "function" \/ TypeOfArg(e) = "string"

\* typeof cb == 'function' && typeof e == 'string'
ValidOn(e, cb) == TypeOfArg(cb) = "function" /\ TypeOfArg(e) = "string"

\* The table on(e, cb) leaves behind: the assignment when the arguments
\* pass the type check, nothing when on() throws.
TableAfterOn(T, e, cb) == IF ValidOn(e, cb) THEN Put(T, PropertyKey(e), cb) ELSE T

(***************************************************************************)
(* The request callback of call(): (error, response, body) => {...}.       *)
(***************************************************************************)
StatusOK == 200

\* try { if (typeof body != 'object') body = JSON.parse(body) } catch (e) { error = e }
ParseBody(r) ==
    IF TypeOf(r.body) # "object"
    THEN LET j == JSONParse(r.body)
         IN  IF j.ok THEN [error |-> r.error, body |-> j.val]
             ELSE [error |-> TRUE, body |-> r.body]
    ELSE [error |-> r.error, body |-> r.body]

\* body.payload
PayloadOf(body) == IF HasField(body, "payload") THEN body.payload ELSE Undefined

\* error || response.statusCode != 200 || !(body.hasOwnProperty('outcome')),
\* evaluated left to right: "fail" when true, "ok" when false, "throw" when
\* the property access body.hasOwnProperty raises (body is null).
Route(r) ==
    LET b == ParseBody(r)
    IN  IF b.error THEN "fail"
        ELSE IF r.status # StatusOK THEN "fail"
        ELSE IF b.body.t \in {"null", "undefined"} THEN "throw"
        ELSE IF HasField(b.body, "outcome") THEN "ok"
        ELSE "fail"

\* f(arg) for a value f read from the table: a function runs (one entry of
\* the invocation log), anything else raises a TypeError.
Invoke(f, arg, role) ==
    IF f \in Handlers
    THEN [entries |-> <<[h |-> f, arg |-> arg, role |-> role]>>, threw |-> FALSE]
    ELSE [entries |-> <<>>, threw |-> TRUE]

\* __callbacks.hasOwnProperty(key): the method is looked up on the table
\* itself, so an own property named hasOwnProperty is what gets called, with
\* the key as its argument; ret is what that function returns (truthy or not).
HasOwnCall(T, key, ret) ==
    LET m == Get(T, "hasOwnProperty")
    IN  IF m = Absent
        THEN [entries |-> <<>>, threw |-> FALSE, result |-> BuiltinHasOwn(T, key)]
        ELSE LET i == Invoke(m, Str(key), "hasOwnProperty")
             IN  [entries |-> i.entries, threw |-> i.threw, result |-> ret /\ ~i.threw]

\* if (__callbacks.hasOwnProperty(key)) { __callbacks[key](arg); }
DispatchTo(T, key, arg, ret) ==
    LET c == HasOwnCall(T, key, ret)
    IN  IF c.threw \/ ~c.result
        THEN [log |-> c.entries, thrown |-> c.threw]
        ELSE LET i == Invoke(Get(T, key), arg, "handler")
             IN  [log |-> c.entries \o i.entries, thrown |-> i.threw]

\* The whole callback: the handlers it invokes, in order, and whether an
\* exception leaves it.
ResponseCallback(T, r, ret) ==
    LET b == ParseBody(r)
        way == Route(r)
    IN  IF way = "throw" THEN [log |-> <<>>, thrown |-> TRUE]
        ELSE IF way = "fail" THEN DispatchTo(T, "error", b.body, ret)
        ELSE DispatchTo(T, b.body.outcome, PayloadOf(b.body), ret)

\* What request() hands to its callback: a transport error (no response, no
\* body), or a response with a status and a body text.
TransportError == [error |-> TRUE, status |-> 0, body |-> Undefined]

Statuses == {StatusOK, 500}

BodyTexts ==
    {Text(NotJSON), Text(Null), Text(Number), Text([t |-> "object", payload |-> Str("p1")])}
    \cup {Text([t |-> "object", outcome |-> o, payload |-> p]) : o \in Names, p \in Payloads}

Responses ==
    {TransportError} \cup [error : {FALSE}, status : Statuses, body : BodyTexts]

\* The responses drawn when two calls are interleaved.
ResponsesTwo ==
    {TransportError}
    \cup [error : {FALSE}, status : {StatusOK},
          body : {Text([t |-> "object", payload |-> Str("p1")])}
                 \cup {Text([t |-> "object", outcome |-> o, payload |-> Str("p1")]) : o \in Names}]

NoResponse == [error |-> FALSE, status |-> 0, body |-> Undefined]

(***************************************************************************)
(* listen(): the pure parts.                                               *)
(***************************************************************************)
\* `${x}` in a template literal
TemplateString(v) == IF v.t = "string" THEN v.s ELSE v.t

UserIdSwapped(pack, event, project, key) ==
    pack \o "_" \o event \o "." \o project \o ":" \o key

\* `${pack}.${event}_${this.project}:${this.key}`
UserId(pack, event, project, key) == pack \o "." \o event \o "_" \o project \o ":" \o key

TokenCallbackValidating(r) ==
    LET j == JSONParse(r.body)
    IN  IF r.error \/ r.status # 200 \/ ~j.ok \/ ~HasField(j.val, "token")
        THEN [threw |-> TRUE, url |-> ""]
        ELSE [threw |-> FALSE,
              url |-> "ws://webhooks.rapidapi.io/socket/websocket?token="
                      \o TemplateString(j.val.token)]

TokenCallbackSwallow(r) ==
    LET j == JSONParse(r.body)
    IN  [threw |-> FALSE,
         url |-> "ws://webhooks.rapidapi.io/socket/websocket?token="
                 \o TemplateString(IF j.ok /\ HasField(j.val, "token")
                                   THEN j.val.token ELSE Undefined)]

\* The token callback up to new WebSocket(sock_url): JSON.parse(body) may
\* throw, destructuring { token } of null throws, a missing token field reads
\* as undefined.
TokenCallback(r) ==
    LET j == JSONParse(r.body)
    IN  IF ~j.ok \/ j.val.t = "null"
        THEN [threw |-> TRUE, url |-> ""]
        ELSE [threw |-> FALSE,
              url |-> "ws://webhooks.rapidapi.io/socket/websocket?token="
                      \o TemplateString(IF HasField(j.val, "token")
                                        THEN j.val.token ELSE Undefined)]

StartsWithWhole(chars, prefix) == chars = prefix

\* event.startsWith(prefix), on strings held as sequences of characters
StartsWith(chars, prefix) ==
    /\ Len(chars) >= Len(prefix)
    /\ \A i \in 1..Len(prefix) : chars[i] = prefix[i]

PhxPrefix == <<"p", "h", "x", "_">>

\* An event name: a string held as its characters.
EventName(chars) == [t |-> "eventname", chars |-> chars]

\* ws.onmessage: what it passes to onMessage, and whether it throws
\* (JSON.parse of the frame, destructuring null, event.startsWith on a
\* missing event, payload.body on a missing payload).
OnMessage(data) ==
    LET j == JSONParse(data)
    IN  IF ~j.ok \/ j.val.t = "null" THEN [deliver |-> <<>>, threw |-> TRUE]
        ELSE IF ~HasField(j.val, "event") THEN [deliver |-> <<>>, threw |-> TRUE]
        ELSE IF StartsWith(j.val.event.chars, PhxPrefix)
             THEN [deliver |-> <<>>, threw |-> FALSE]
        ELSE IF ~HasField(j.val, "payload") THEN [deliver |-> <<>>, threw |-> TRUE]
        ELSE [deliver |-> <<IF HasField(j.val.payload, "body")
                            THEN j.val.payload.body ELSE Undefined>>,
              threw |-> FALSE]

JoinFrameNoPrefix(userId) ==
    Text([t |-> "object", topic |-> userId, event |-> "phx_join",
          payload |-> [t |-> "object"], ref |-> "1"])

\* The frame ws.onopen sends.
JoinFrame(userId) ==
    Text([t |-> "object", topic |-> "users_socket:" \o userId, event |-> "phx_join",
          payload |-> [t |-> "object"], ref |-> "1"])

TokenBodies ==
    {Text(NotJSON), Text(Null), Text(Number), Text([t |-> "object"]),
     Text([t |-> "object", token |-> Str("tk1")])}

TokenResponses ==
    {TransportError} \cup [error : {FALSE}, status : Statuses, body : TokenBodies]

EventNames ==
    {EventName(<<"p", "h", "x", "_", "r", "e", "p", "l", "y">>),
     EventName(<<"p", "h", "x", "_">>),
     EventName(<<"p", "h", "x">>),
     EventName(<<"a", "l", "e", "r", "t">>),
     EventName(<<"a", "p", "h", "x", "_">>)}

FramePayloads == {[t |-> "object", body |-> Str("x")], [t |-> "object", body |-> Str("y")]}

\* What can arrive as msg.data: text that is not JSON, objects without an
\* event or without a payload, a payload without a body, and full frames.
Frames ==
    {Text(NotJSON),
     Text([t |-> "object", payload |-> [t |-> "object", body |-> Str("x")]]),
     Text([t |-> "object", event |-> EventName(<<"p", "h", "x", "_", "r", "e", "p", "l", "y">>)]),
     Text([t |-> "object", event |-> EventName(<<"a", "l", "e", "r", "t">>)]),
     Text([t |-> "object", event |-> EventName(<<"a", "l", "e", "r", "t">>),
           payload |-> [t |-> "object"]])}
    \cup {Text([t |-> "object", event |-> e, payload |-> q]) :
              e \in EventNames, q \in FramePayloads}

Packs == {"weather", "mail"}

Events == {"alert"}

Projects == {"p1"}

Keys == {"k1", "k2"}

\* A close code: a number.
CloseCode(n) == [t |-> "number", n |-> n]

\* The (code, reason) pairs a socket closes with.
CloseArgs == {<<CloseCode("1000"), Str("normal")>>, <<CloseCode("1006"), Str("")>>}

\* The event object the socket hands to a handler installed as ws.onclose.
CloseEvent(code, reason) == [t |-> "object", type |-> "close", code |-> code, reason |-> reason]

\* The arguments ws.onclose is called with when the socket closes with
\* (code, reason): handlers installed through the on<event> properties of
\* a 'ws' socket receive one event object (ws.onmessage reads msg.data),
\* so the second parameter is undefined.
CloseHandlerArgs(code, reason) == <<CloseEvent(code, reason), Undefined>>

(***************************************************************************)
(* State.                                                                  *)
(***************************************************************************)
Calls == {"A", "B"}

VARIABLES
    client,     \* this.project and this.key, set by the constructor
    phase,      \* per call: "new" (call() not made), "pending", "done"
    table,      \* per call: its __callbacks
    resp,       \* per call: what its request callback received
    log,        \* per call: the handler invocations its callback made
    thrown,     \* per call: whether an exception left its callback
    accepted,   \* per call: the functions on() stored through its registrar
    late,       \* per call: the functions on() stored after its callback ran
    replaced,   \* per call: the <<name, function>> pairs a later on() overwrote
    nOn,        \* on() calls made so far
    lastOn,     \* the latest on() call and whether it threw
    lphase,     \* listen(): "new", "token", "crashed", "connecting", "open", "closed"
    userId,     \* the user_id listen() computed
    tokenReqs,  \* the user_id of each token request sent
    tokenResp,  \* what the token callback received
    sockets,    \* the URL of each WebSocket constructed
    sent,       \* the frames sent on the socket
    inbox,      \* the frames that arrived on the socket, in order
    delivered,  \* the arguments of each onMessage invocation, in order
    faults,     \* exceptions that left ws.onmessage
    closes,     \* the arguments of each onClose invocation
    closedWith, \* the (code, reason) of each close of the socket
    largs       \* the pack and event listen() was called with

callVars == <<phase, table, resp, log, thrown, accepted, late, replaced, nOn, lastOn>>

listenVars ==
    <<lphase, userId, tokenReqs, tokenResp, sockets, sent, inbox, delivered, faults, closes,
      closedWith, largs>>

vars == <<client, callVars, listenVars>>

NoOn == [call |-> "none", e |-> "", cb |-> "", threw |-> FALSE]

\* new RapidAPI(project, key), before any call() or listen()
Init ==
    /\ client \in [project : Projects, key : Keys]
    /\ phase = [c \in Calls |-> "new"]
    /\ table = [c \in Calls |-> EmptyTable]
    /\ resp = [c \in Calls |-> NoResponse]
    /\ log = [c \in Calls |-> <<>>]
    /\ thrown = [c \in Calls |-> FALSE]
    /\ accepted = [c \in Calls |-> {}]
    /\ late = [c \in Calls |-> {}]
    /\ replaced = [c \in Calls |-> {}]
    /\ nOn = 0
    /\ lastOn = NoOn
    /\ lphase = "new"
    /\ userId = ""
    /\ tokenReqs = <<>>
    /\ tokenResp = NoResponse
    /\ sockets = <<>>
    /\ sent = <<>>
    /\ inbox = <<>>
    /\ delivered = <<>>
    /\ faults = 0
    /\ closes = <<>>
    /\ closedWith = <<>>
    /\ largs = [pack |-> "", event |-> ""]

(***************************************************************************)
(* call() and its registrar.                                               *)
(***************************************************************************)
SharedTable(c) == "A"

\* The table a call's registrar and request callback close over: the
\* let __callbacks = {} of that call.
TableOf(c) == c

CallbackDueAgain(ph) == ph \in {"pending", "done"}

\* request() runs its callback once per request.
CallbackDue(ph) == ph = "pending"

\* call(pack, block, args): a fresh table, the request sent, the registrar
\* returned.
Call(c) ==
    /\ phase[c] = "new"
    /\ phase' = [phase EXCEPT ![c] = "pending"]
    /\ table' = [table EXCEPT ![TableOf(c)] = EmptyTable]
    /\ UNCHANGED <<client, resp, log, thrown, accepted, late, replaced, nOn, lastOn, listenVars>>

\* r.on(e, cb) on the registrar of call c.
On(c, e, cb) ==
    /\ phase[c] # "new"
    /\ nOn < MaxOn
    /\ nOn' = nOn + 1
    /\ table' = [table EXCEPT ![TableOf(c)] = TableAfterOn(table[TableOf(c)], e, cb)]
    /\ lastOn' = [call |-> c, e |-> e, cb |-> cb, threw |-> ~ValidOn(e, cb)]
    /\ accepted' = [accepted EXCEPT ![c] = IF ValidOn(e, cb) THEN @ \cup {cb} ELSE @]
    /\ late' = [late EXCEPT ![c] =
                    IF ValidOn(e, cb) /\ phase[c] = "done" THEN @ \cup {cb} ELSE @]
    /\ replaced' = [replaced EXCEPT ![c] =
                        IF ValidOn(e, cb) /\ Get(table[TableOf(c)], PropertyKey(e)) \in Handlers
                        THEN @ \cup {<<e, Get(table[TableOf(c)], PropertyKey(e))>>}
                        ELSE @]
    /\ UNCHANGED <<client, phase, resp, log, thrown, listenVars>>

\* The request callback of call c runs with response r.
Respond(c, r, ret) ==
    /\ CallbackDue(phase[c])
    /\ LET d == ResponseCallback(table[TableOf(c)], r, ret)
       IN  /\ log' = [log EXCEPT ![c] = @ \o d.log]
           /\ thrown' = [thrown EXCEPT ![c] = @ \/ d.thrown]
    /\ resp' = [resp EXCEPT ![c] = r]
    /\ phase' = [phase EXCEPT ![c] = "done"]
    /\ UNCHANGED <<client, table, accepted, late, replaced, nOn, lastOn, listenVars>>

NextOne ==
    \/ Call("A")
    \/ \E e \in OnKeys, cb \in OnValues : On("A", e, cb)
    \/ \E r \in Responses, ret \in BOOLEAN : Respond("A", r, ret)

NextTwo ==
    \E c \in Calls :
        \/ Call(c)
        \/ nOn < MaxOnTwo /\ \E e \in OnKeys, cb \in OnValues : On(c, e, cb)
        \/ \E r \in ResponsesTwo, ret \in BOOLEAN : Respond(c, r, ret)

\* One call on the client.
Spec == Init /\ [][NextOne]_vars

\* Two calls on the same client, interleaved.
SpecTwo == Init /\ [][NextTwo]_vars

(***************************************************************************)
(* listen().                                                               *)
(***************************************************************************)
\* listen(pack, event, params, callbacks): the token request is sent.
Listen(pack, event) ==
    /\ lphase = "new"
    /\ lphase' = "token"
    /\ userId' = UserId(pack, event, client.project, client.key)
    /\ tokenReqs' = Append(tokenReqs, UserId(pack, event, client.project, client.key))
    /\ largs' = [pack |-> pack, event |-> event]
    /\ UNCHANGED <<client, callVars, tokenResp, sockets, sent, inbox, delivered, faults, closes,
                   closedWith>>

\* The token callback runs with response r: it throws, or constructs the
\* socket and installs the three handlers.
TokenResponse(r) ==
    /\ lphase = "token"
    /\ tokenResp' = r
    /\ LET k == TokenCallback(r)
       IN  IF k.threw
           THEN lphase' = "crashed" /\ sockets' = sockets
           ELSE lphase' = "connecting" /\ sockets' = Append(sockets, k.url)
    /\ UNCHANGED <<client, callVars, userId, tokenReqs, sent, inbox, delivered, faults, closes,
                   closedWith, largs>>

\* ws.onopen
SocketOpen ==
    /\ lphase = "connecting"
    /\ lphase' = "open"
    /\ sent' = Append(sent, JoinFrame(userId))
    /\ UNCHANGED <<client, callVars, userId, tokenReqs, tokenResp, sockets, inbox, delivered,
                   faults, closes, closedWith, largs>>

\* ws.onmessage with msg.data = data
Frame(data) ==
    /\ lphase = "open"
    /\ Len(inbox) < MaxFrames
    /\ inbox' = Append(inbox, data)
    /\ LET m == OnMessage(data)
       IN  /\ delivered' = delivered \o m.deliver
           /\ faults' = IF m.threw THEN faults + 1 ELSE faults
    /\ UNCHANGED <<client, callVars, lphase, userId, tokenReqs, tokenResp, sockets, sent, closes,
                   closedWith, largs>>

SocketCloseReconnect(code, reason) ==
    /\ lphase \in {"connecting", "open"}
    /\ lphase' = "token"
    /\ tokenReqs' = Append(tokenReqs, userId)
    /\ closedWith' = Append(closedWith, <<code, reason>>)
    /\ closes' = Append(closes, CloseHandlerArgs(code, reason))
    /\ UNCHANGED <<client, callVars, userId, tokenResp, sockets, sent, inbox, delivered,
                   faults, largs>>

\* The socket closes with (code, reason): ws.onclose runs and passes its two
\* parameters on to onClose.
SocketClose(code, reason) ==
    /\ lphase \in {"connecting", "open"}
    /\ lphase' = "closed"
    /\ closedWith' = Append(closedWith, <<code, reason>>)
    /\ closes' = Append(closes, CloseHandlerArgs(code, reason))
    /\ UNCHANGED <<client, callVars, userId, tokenReqs, tokenResp, sockets, sent, inbox,
                   delivered, faults, largs>>

\* The socket emits 'error': no handler is installed for it.
SocketError ==
    /\ lphase \in {"connecting", "open"}
    /\ lphase' = "crashed"
    /\ UNCHANGED <<client, callVars, userId, tokenReqs, tokenResp, sockets, sent, inbox,
                   delivered, faults, closes, closedWith, largs>>

NextListen ==
    \/ \E pack \in Packs, event \in Events : Listen(pack, event)
    \/ \E r \in TokenResponses : TokenResponse(r)
    \/ SocketOpen
    \/ \E data \in Frames : Frame(data)
    \/ \E a \in CloseArgs : SocketClose(a[1], a[2])
    \/ SocketError

\* One listen() on the client.
SpecListen == Init /\ [][NextListen]_vars

(***************************************************************************)
(* Properties of call().                                                   *)
(***************************************************************************)
\* The function the caller registered under name N in table T, as on(N, h)
\* left it (Absent or Object.prototype when there is none).
HandlerUnder(T, N) == IF N = "__proto__" THEN T.proto ELSE T.own[N]

RegisteredUnder(T, N) == HandlerUnder(T, N) \in Handlers

\* The step in which the request callback of call c runs.
Dispatches(c) == phase[c] = "pending" /\ phase'[c] = "done"

\* The value a response body text denotes, when it denotes one.
Parses(r) == r.body.t = "text" /\ r.body.json # NotJSON

LacksOutcome(v) == v.t # "object" \/ "outcome" \notin DOMAIN v

\* No transport error, status 200, a body with an outcome field.
IsSuccess(r) ==
    /\ ~r.error
    /\ r.status = 200
    /\ Parses(r)
    /\ ~LacksOutcome(r.body.json)

\* C1: per call, at most one registered handler is ever invoked, and only
\* after the response (or transport error) of that call has arrived.
C1_AtMostOneHandler ==
    \A c \in Calls :
        /\ Len(log[c]) <= 1
        /\ log[c] # <<>> => phase[c] = "done"

\* C2: a response without transport error, with status 200 and a body of
\* outcome N and payload P invokes the handler registered under N before
\* the response arrived, once, with P, and invokes no other handler.
C2_ExactHandler ==
    [][\A c \in Calls :
          (Dispatches(c) /\ IsSuccess(resp'[c])
              /\ RegisteredUnder(table[c], resp'[c].body.json.outcome))
          => /\ Len(log'[c]) = 1
             /\ log'[c][1].h = HandlerUnder(table[c], resp'[c].body.json.outcome)
             /\ log'[c][1].arg = resp'[c].body.json.payload]_vars

\* C3: a response with a status other than 200 goes to the "error" handler
\* and to no handler registered under another name, whatever the body holds.
C3_Non200ToError ==
    [][\A c \in Calls :
          (Dispatches(c) /\ ~resp'[c].error /\ resp'[c].status # 200)
          => IF RegisteredUnder(table[c], "error")
             THEN /\ Len(log'[c]) = 1
                  /\ log'[c][1].h = HandlerUnder(table[c], "error")
             ELSE log'[c] = <<>>]_vars

\* C4: when the parsed body has no outcome field (a null body included) and
\* an "error" handler is registered, that handler is invoked with the body.
C4_NoOutcomeToError ==
    [][\A c \in Calls :
          (Dispatches(c) /\ Parses(resp'[c]) /\ LacksOutcome(resp'[c].body.json)
              /\ RegisteredUnder(table[c], "error"))
          => \E i \in DOMAIN log'[c] :
                 /\ log'[c][i].h = HandlerUnder(table[c], "error")
                 /\ log'[c][i].arg = resp'[c].body.json]_vars

\* C5: when no "error" handler is registered and the call fails (transport
\* error, status other than 200, unparsable body, body without outcome), no
\* handler is invoked and no exception leaves the response handling.
C5_SilentFailure ==
    [][\A c \in Calls :
          (Dispatches(c) /\ ~IsSuccess(resp'[c]) /\ ~RegisteredUnder(table[c], "error"))
          => log'[c] = <<>> /\ ~thrown'[c]]_vars

\* C6: once the request callback of a call has run, its invocation log never
\* changes again: on() after the response stores the handler and invokes
\* nothing, and the table is not consulted a second time.
C6_LateHandlerNeverInvoked ==
    [][\A c \in Calls :
          phase[c] = "done"
          => /\ phase'[c] = "done"
             /\ log'[c] = log[c]
             /\ resp'[c] = resp[c]
             /\ thrown'[c] = thrown[c]]_vars

\* A success response whose outcome had no handler was dropped, and a
\* handler was registered under that outcome afterwards.
C6_Witness ==
    /\ phase["A"] = "done"
    /\ IsSuccess(resp["A"])
    /\ resp["A"].body.json.outcome = "success"
    /\ log["A"] = <<>>
    /\ table["A"].own["success"] \in late["A"]

\* The step in which on() is called with a non-string e or a non-function cb.
RejectedOn ==
    /\ nOn' = nOn + 1
    /\ TypeOfArg(lastOn'.e) # "string" \/ TypeOfArg(lastOn'.cb) # "function"

\* C7: on(e, cb) with a non-string e or a non-function cb throws at the
\* call and leaves every handler table as it was; what a later response
\* invokes is only ever a function that on() accepted.
C7_InvalidOnRejected ==
    [][/\ RejectedOn => lastOn'.threw /\ table' = table /\ accepted' = accepted /\ log' = log
       /\ \A c \in Calls :
              /\ \A i \in DOMAIN log'[c] : log'[c][i].h \in accepted'[c]
              /\ \A k \in OwnKeys : table'[c].own[k] \in accepted'[c] \cup {Absent}]_vars

\* on("error", h) was accepted, a later on() was rejected, and the failure
\* response that followed still reached h and not the rejected function.
C7_Witness ==
    /\ lastOn.threw
    /\ lastOn.call = "A"
    /\ phase["A"] = "done"
    /\ Len(log["A"]) = 1
    /\ log["A"][1].h = table["A"].own["error"]
    /\ log["A"][1].h # lastOn.cb

\* C8: with two calls interleaved, every function a call's response invokes
\* was registered through that call's own registrar, and each call's table
\* holds only what its own registrar stored.
C8_NoCrossCallDispatch ==
    \A c \in Calls :
        /\ \A i \in DOMAIN log[c] : log[c][i].h \in accepted[c]
        /\ \A k \in OwnKeys : table[c].own[k] \in accepted[c] \cup {Absent}
        /\ table[c].proto \in accepted[c] \cup {ObjectPrototype}

\* Two identical successful calls, each dispatched to the handler of its
\* own registrar.
C8_Witness ==
    /\ phase["A"] = "done" /\ phase["B"] = "done"
    /\ resp["A"] = resp["B"]
    /\ IsSuccess(resp["A"])
    /\ accepted["A"] = {"h1"} /\ accepted["B"] = {"h2"}
    /\ Len(log["A"]) = 1 /\ log["A"][1].h = "h1"
    /\ Len(log["B"]) = 1 /\ log["B"][1].h = "h2"
    /\ log["A"][1].arg = log["B"][1].arg

(***************************************************************************)
(* Properties of listen().                                                 *)
(***************************************************************************)
\* The token exchange succeeded: no transport error, status 200, a body
\* holding a token.
TokenExchangeSucceeded(r) ==
    /\ ~r.error
    /\ r.status = 200
    /\ Parses(r)
    /\ r.body.json.t = "object"
    /\ "token" \in DOMAIN r.body.json

\* C9 as stated: no socket while the token request is outstanding, and none
\* for a token exchange that did not succeed.
C9_SocketOnlyAfterSuccess ==
    /\ lphase \in {"new", "token"} => sockets = <<>>
    /\ sockets # <<>> => TokenExchangeSucceeded(tokenResp)

\* C9 amended: no socket while the token request is outstanding, at most
\* one socket, and none for a token exchange that ended in a transport
\* error or in a body that is not JSON or is null (status and token field
\* are not looked at).
C9_SocketOnlyAfterParsedToken ==
    /\ lphase \in {"new", "token"} => sockets = <<>>
    /\ Len(sockets) <= 1
    /\ sockets # <<>> => /\ ~tokenResp.error
                         /\ Parses(tokenResp)
                         /\ tokenResp.body.json # Null

\* A socket was opened after a token response of status 500 without a token.
C9_Witness ==
    /\ sockets # <<>>
    /\ tokenResp.status = 500
    /\ ~TokenExchangeSucceeded(tokenResp)
    /\ lphase = "open"

\* A frame of the socket protocol: an object with an event and a payload.
IsProtocolFrame(data) ==
    /\ data.t = "text"
    /\ data.json # NotJSON
    /\ data.json.t = "object"
    /\ {"event", "payload"} \subseteq DOMAIN data.json

BeginsWithPhx(chars) == Len(chars) >= 4 /\ SubSeq(chars, 1, 4) = <<"p", "h", "x", "_">>

\* payload.body of a protocol frame
BodyOf(data) ==
    IF "body" \in DOMAIN data.json.payload THEN data.json.payload.body ELSE Undefined

RECURSIVE Forwarded(_)
\* payload.body of every protocol frame whose event does not begin with
\* "phx_", in arrival order.
Forwarded(frames) ==
    IF frames = <<>> THEN <<>>
    ELSE LET f == Head(frames)
         IN  (IF IsProtocolFrame(f) /\ ~BeginsWithPhx(f.json.event.chars)
              THEN <<BodyOf(f)>> ELSE <<>>)
             \o Forwarded(Tail(frames))

\* C10: over the frames of the socket protocol (objects with an event and a
\* payload) that have arrived, onMessage was invoked once per frame whose
\* event does not begin with "phx_", in arrival order, with payload.body,
\* and was not invoked for any other frame.
C10_OnlyApplicationFrames == delivered = Forwarded(inbox)

\* A control frame arrived between two application frames: two deliveries.
C10_Witness ==
    /\ Len(inbox) = 3
    /\ IsProtocolFrame(inbox[1]) /\ ~BeginsWithPhx(inbox[1].json.event.chars)
    /\ IsProtocolFrame(inbox[2]) /\ BeginsWithPhx(inbox[2].json.event.chars)
    /\ Len(inbox[2].json.event.chars) > 4
    /\ IsProtocolFrame(inbox[3]) /\ ~BeginsWithPhx(inbox[3].json.event.chars)
    /\ delivered = <<Str("x"), Str("y")>>

\* C11: when the socket closes with code C and reason R, onClose(C, R) is
\* invoked, once, and onMessage is not invoked afterwards.
C11_CloseOnceThenSilent ==
    [][/\ (lphase # "closed" /\ lphase' = "closed")
          => closes' = Append(closes, closedWith'[Len(closedWith')])
       /\ lphase = "closed" => closes' = closes /\ delivered' = delivered]_vars

\* C12: nothing is sent before the socket opens, the join frame is sent at
\* open, and it is the only frame the client ever sends.
C12_JoinOnceAtOpen ==
    /\ lphase \in {"new", "token", "connecting"} => sent = <<>>
    /\ lphase = "open" => Len(sent) = 1
    /\ Len(sent) <= 1
    /\ \A i \in DOMAIN sent :
           sent[i] = Text([t |-> "object", topic |-> "users_socket:" \o tokenReqs[1],
                           event |-> "phx_join", payload |-> [t |-> "object"], ref |-> "1"])

\* The session opened, received frames and closed: one frame was sent.
C12_Witness ==
    /\ lphase = "closed"
    /\ Len(inbox) >= 2
    /\ Len(sent) = 1
    /\ sent[1].json.event = "phx_join"

\* C13: a listen() sends at most one token request and constructs at most
\* one socket, and once the socket has closed nothing more is requested,
\* connected or sent.
C13_ClosureTerminal ==
    [][/\ Len(tokenReqs') <= 1
       /\ Len(sockets') <= 1
       /\ lphase = "closed"
          => /\ lphase' = "closed"
             /\ tokenReqs' = tokenReqs
             /\ sockets' = sockets
             /\ sent' = sent]_vars

\* The socket opened, joined and closed.
C13_Witness ==
    /\ lphase = "closed"
    /\ Len(closedWith) = 1
    /\ Len(tokenReqs) = 1
    /\ Len(sockets) = 1
    /\ Len(sent) = 1

\* C14: the channel identity is pack + "." + event + "_" + project + ":" +
\* key; the token request carries it as user_id and the join frame carries
\* it, after "users_socket:", as topic.
C14_ChannelIdentity ==
    lphase # "new"
    => LET id == largs.pack \o "." \o largs.event \o "_" \o client.project
                 \o ":" \o client.key
       IN  /\ userId = id
           /\ tokenReqs = <<id>>
           /\ \A i \in DOMAIN sent : sent[i].json.topic = "users_socket:" \o id
           /\ (largs.pack = "weather" /\ largs.event = "alert"
                  /\ client.project = "p1" /\ client.key = "k1")
              => userId = "weather.alert_p1:k1"

\* The identity of the worked example, in the request and in the join frame.
C14_Witness ==
    /\ largs = [pack |-> "weather", event |-> "alert"]
    /\ client = [project |-> "p1", key |-> "k1"]
    /\ tokenReqs = <<"weather.alert_p1:k1">>
    /\ sent # <<>>
    /\ sent[1].json.topic = "users_socket:weather.alert_p1:k1"

\* C15: a success response whose outcome has no registered handler invokes
\* no handler at all, the "error" handler included.
C15_UnregisteredOutcomeDropped ==
    [][\A c \in Calls :
          (Dispatches(c) /\ IsSuccess(resp'[c])
              /\ ~RegisteredUnder(table[c], resp'[c].body.json.outcome))
          => log'[c] = <<>> /\ ~thrown'[c]]_vars

\* The error JSON.parse throws.
ParseError == [t |-> "syntaxerror"]

\* C16: on a transport error or an unparsable body, a registered "error"
\* handler is the only handler invoked, with the raw body or the parse
\* error as its argument.
C16_RequestErrorToErrorOnly ==
    [][\A c \in Calls :
          (Dispatches(c) /\ (resp'[c].error \/ ~Parses(resp'[c]))
              /\ RegisteredUnder(table[c], "error"))
          => /\ Len(log'[c]) = 1
             /\ log'[c][1].h = HandlerUnder(table[c], "error")
             /\ log'[c][1].arg \in {resp'[c].body, ParseError}]_vars

\* C17: after a token exchange that ended in a transport error or in a body
\* that is not JSON, the callback has thrown: no socket, no join frame, no
\* onMessage, no onClose.
C17_TokenFailureUnhandled ==
    (lphase \notin {"new", "token"} /\ (tokenResp.error \/ ~Parses(tokenResp)))
    => /\ lphase = "crashed"
       /\ sockets = <<>>
       /\ sent = <<>>
       /\ delivered = <<>>
       /\ closes = <<>>

\* The token request failed in the transport.
C17_Witness ==
    /\ lphase = "crashed"
    /\ tokenResp.error
    /\ Len(tokenReqs) = 1

\* C18 as stated: whenever the body of the token response parses, the
\* socket is constructed.
C18_SocketWheneverParsed ==
    (lphase \notin {"new", "token"} /\ Parses(tokenResp)) => Len(sockets) = 1

\* C18 amended: whenever the body of the token response parses to a value
\* other than null, the socket is constructed with the token read from it
\* ("undefined" when there is none), whatever the status.
C18_SocketWheneverParsedNonNull ==
    (lphase \notin {"new", "token"} /\ Parses(tokenResp) /\ tokenResp.body.json # Null)
    => sockets = <<"ws://webhooks.rapidapi.io/socket/websocket?token="
                   \o (IF tokenResp.body.json.t = "object"
                          /\ "token" \in DOMAIN tokenResp.body.json
                       THEN tokenResp.body.json.token.s
                       ELSE "undefined")>>

\* Status 500 and no token field: the socket URL carries "undefined".
C18_Witness ==
    /\ tokenResp.status = 500
    /\ tokenResp.body = Text([t |-> "object"])
    /\ sockets = <<"ws://webhooks.rapidapi.io/socket/websocket?token=undefined">>

\* C19: when a handler registered under a name was replaced by a later on()
\* under that name and the response carries that outcome, the handler now
\* under the name is invoked and no other is.
C19_LatestHandlerOnly ==
    [][\A c \in Calls :
          (Dispatches(c) /\ IsSuccess(resp'[c])
              /\ \E q \in replaced[c] : q[1] = resp'[c].body.json.outcome)
          => /\ Len(log'[c]) = 1
             /\ log'[c][1].h = HandlerUnder(table[c], resp'[c].body.json.outcome)]_vars

====
